---- MODULE Spec2Model ----
(***************************************************************************)
(* ConfigManager (src/config_manager.py): cached JSON documents, the lazy  *)
(* device index and the .env file, over a shared file system.              *)
(***************************************************************************)
EXTENDS Integers, Sequences, FiniteSets, TLC

VARIABLES
    files,          \* the two JSON documents on disk
    config_cache,   \* self._config_cache
    device_index,   \* self._device_index (an attribute that may not exist)
    index_from,     \* the device list self._device_index was built from
    env_file,       \* the .env file on disk
    ret,            \* the last call: operation, argument, outcome, returned value,
                    \* and, for a read, the event hist held for the document before it
    hist,           \* per document, the last event that decided its cache entry:
                    \* written, loaded, fellback, dropped (invalidate_cache(path)),
                    \* flushed (invalidate_cache()), none
    environ,        \* os.environ, as far as the recognised keys go
    config_dir,     \* the configuration directory: absent, present, or blocked
                    \* (it cannot be created)
    example_env,    \* the .env.example file on disk
    peer_cache,     \* _config_cache of a second ConfigManager on the same files
    saver,          \* per ConfigManager, how far its save_env_settings call has got
    text_widget,    \* InstagramLinkMenu.text_widget: per character, its tags
    selected_link,  \* InstagramLinkMenu.selected_link (an attribute that may not exist)
    context_menu,   \* InstagramLinkMenu.context_menu: posted or unposted
    clipboard,      \* the clipboard of the text widget
    opened          \* the links handed to link_processor.open_instagram_link

\* the second ConfigManager
peerVars == <<peer_cache, saver>>
\* the link menu
guiVars == <<text_widget, selected_link, context_menu, clipboard, opened>>
\* the configuration directory and the example file next to it
dirVars == <<config_dir, example_env>>

vars == <<files, config_cache, device_index, index_from, env_file, ret, hist,
          environ, dirVars, peerVars, guiVars>>

-----------------------------------------------------------------------------
(* Bounds *)

\* longest device list written or found on disk
MaxDevices == 2
\* most chunks of a document, or lines of .env, that reach the disk before a write fails
MaxFailAt == 1
\* most lines of the .env file found at start
MaxEnvLines == 2
\* most characters in the text widget
MaxChars == 3

-----------------------------------------------------------------------------
(* Documents and Python values *)

mobile_devices_path == "mobile_devices.json"
telegram_entities_path == "telegram_entities.json"
Paths == {mobile_devices_path, telegram_entities_path}

Names == {"A", "B"}
Records ==
    { [name |-> "A", id |-> 1], [name |-> "A", id |-> 2], [name |-> "B", id |-> 1] }

\* the result of dict.get on a missing key (None)
Absent == [name |-> "<None>", id |-> 0]

SeqsUpTo(S, n) == UNION { [1..k -> S] : k \in 0..n }

ListValue(items) == [kind |-> "list", items |-> items]
DictValue(items) == [kind |-> "dict", items |-> items]
\* no entry under a key of the cache
NoValue == [kind |-> "none", items |-> <<>>]

\* a device list holds each record once; two records may bear the same name
Distinct(s) == \A i, j \in 1..Len(s) : i # j => s[i] # s[j]
DeviceLists == { ListValue(s) : s \in {l \in SeqsUpTo(Records, MaxDevices) : Distinct(l)} }

\* a dict key is a str or an int; json.dump writes both as a string
StrKey(t) == [int |-> FALSE, text |-> t]
IntKey(t) == [int |-> TRUE, text |-> t]
EntityMaps ==
    { DictValue(<<>>),
      DictValue(<< [k |-> StrKey("7"), v |-> "chat"] >>),
      DictValue(<< [k |-> IntKey("7"), v |-> "chat"] >>) }

-----------------------------------------------------------------------------
(* json.dump and json.load, over chunks of text *)

IsIntText(t) == \E n \in 0..9 : ToString(n) = t
IntOf(t) == CHOOSE n \in 0..9 : ToString(n) = t

RECURSIVE Join(_, _)
\* the chunks of each element, separated by ","
Join(chunks, i) ==
    IF i > Len(chunks) THEN <<>>
    ELSE (IF i > 1 THEN <<",">> ELSE <<>>) \o chunks[i] \o Join(chunks, i + 1)

DumpRecord(r) == <<"{", "name", r.name, "id", ToString(r.id), "}">>
DumpEntry(e) == <<e.k.text, e.v>>

Dump(v) ==
    IF v.kind = "list"
    THEN <<"[">> \o Join([i \in 1..Len(v.items) |-> DumpRecord(v.items[i])], 1) \o <<"]">>
    ELSE <<"{">> \o Join([i \in 1..Len(v.items) |-> DumpEntry(v.items[i])], 1) \o <<"}">>

\* body holds count elements of width chunks each, "," between them
Separated(body, width) ==
    /\ (Len(body) + 1) % (width + 1) = 0
    /\ \A i \in 1..Len(body) : (i % (width + 1) = 0) => body[i] = ","

RecordAt(body, i) ==
    LET o == 7 * (i - 1) IN [name |-> body[o + 3], id |-> IntOf(body[o + 5])]
RecordOk(body, i) ==
    LET o == 7 * (i - 1)
    IN /\ body[o + 1] = "{" /\ body[o + 2] = "name" /\ body[o + 4] = "id"
       /\ IsIntText(body[o + 5]) /\ body[o + 6] = "}"

EntryAt(body, i) ==
    LET o == 3 * (i - 1) IN [k |-> StrKey(body[o + 1]), v |-> body[o + 2]]

\* json.load accepts the text
Decodes(text) ==
    /\ Len(text) >= 2
    /\ LET body == SubSeq(text, 2, Len(text) - 1)
       IN \/ /\ text[1] = "[" /\ text[Len(text)] = "]"
             /\ \/ body = <<>>
                \/ /\ Separated(body, 6)
                   /\ \A i \in 1..((Len(body) + 1) \div 7) : RecordOk(body, i)
          \/ /\ text[1] = "{" /\ text[Len(text)] = "}"
             /\ body = <<>> \/ Separated(body, 2)

\* what json.load returns for a text it accepts
Load(text) ==
    LET body == SubSeq(text, 2, Len(text) - 1)
    IN IF text[1] = "["
       THEN ListValue([i \in 1..((Len(body) + 1) \div 7) |-> RecordAt(body, i)])
       ELSE DictValue([i \in 1..((Len(body) + 1) \div 3) |-> EntryAt(body, i)])

-----------------------------------------------------------------------------
(* Files *)

Missing == [st |-> "missing", text |-> <<>>]
\* the file exists and open() raises PermissionError
Denied == [st |-> "denied", text |-> <<>>]
File(text) == [st |-> "file", text |-> text]

Readable(f) == f.st = "file" /\ Decodes(f.text)
\* open() raises FileNotFoundError or json.load raises JSONDecodeError
MissingOrMalformed(f) == f.st = "missing" \/ (f.st = "file" /\ ~Decodes(f.text))

\* variant: the fallback is {} whatever the document
Fallback_always_dict(p) == DictValue(<<>>)

\* "[] if file_path == self.mobile_devices_path else {}"
Fallback(p) == IF p = mobile_devices_path THEN ListValue(<<>>) ELSE DictValue(<<>>)

-----------------------------------------------------------------------------
(* The .env file: a sequence of lines, each a sequence of characters *)

EnvMissing == [st |-> "missing", lines |-> <<>>]
\* the file exists and open() raises PermissionError
EnvDenied == [st |-> "denied", lines |-> <<>>]
EnvFile(lines) == [st |-> "file", lines |-> lines]

\* the characters in use, in code point order
Chars ==
    << " ", "\"", "#", "'", "1", "2", "9", "=", "A", "B", "D", "E", "F", "G", "I",
       "L", "M", "O", "P", "R", "T", "_", "x" >>
Ord(c) == CHOOSE i \in 1..Len(Chars) : Chars[i] = c

\* Python's order on str: the first differing character decides, a prefix comes first
StrLess(a, b) ==
    \E i \in 1..Len(b) :
        /\ i <= Len(a) + 1
        /\ \A j \in 1..(i - 1) : a[j] = b[j]
        /\ (i = Len(a) + 1 \/ Ord(a[i]) < Ord(b[i]))

TELEGRAM_API_ID == <<"T", "E", "L", "E", "G", "R", "A", "M", "_", "A", "P", "I", "_", "I", "D">>
BAR == <<"B", "A", "R">>
FOO == <<"F", "O", "O">>

default_env_settings == [k \in {TELEGRAM_API_ID} |-> <<>>]

RECURSIVE Strip(_, _)
\* str.strip(chars): characters of the set are removed from both ends
Strip(str, chars) ==
    IF str = <<>> THEN str
    ELSE IF str[1] \in chars THEN Strip(Tail(str), chars)
    ELSE IF str[Len(str)] \in chars THEN Strip(SubSeq(str, 1, Len(str) - 1), chars)
    ELSE str

HasEquals(line) == \E i \in 1..Len(line) : line[i] = "="
FirstEquals(line) ==
    CHOOSE i \in 1..Len(line) : line[i] = "=" /\ \A j \in 1..(i - 1) : line[j] # "="

\* k, v = line.strip().split('=', 1), with v.strip("'\"")
SplitLine(line) ==
    LET stripped == Strip(line, {" "})
        at == FirstEquals(stripped)
    IN [k |-> SubSeq(stripped, 1, at - 1),
        v |-> Strip(SubSeq(stripped, at + 1, Len(stripped)), {"'", "\""})]

\* dict.update: the entries of g replace and extend those of f
Update(f, g) ==
    [k \in DOMAIN f \cup DOMAIN g |-> IF k \in DOMAIN g THEN g[k] ELSE f[k]]

\* the empty dict
EmptyDict == [k \in {} |-> <<>>]

RECURSIVE ReadEnv(_, _, _)
\* the loop over the lines of the file: lines without "=" are skipped
ReadEnv(lines, i, env_data) ==
    IF i > Len(lines) THEN env_data
    ELSE IF HasEquals(lines[i])
    THEN LET kv == SplitLine(lines[i])
         IN ReadEnv(lines, i + 1, Update(env_data, [k \in {kv.k} |-> kv.v]))
    ELSE ReadEnv(lines, i + 1, env_data)

RECURSIVE Sorted(_)
\* sorted(env_data.keys())
Sorted(keys) ==
    IF keys = {} THEN <<>>
    ELSE LET least == CHOOSE k \in keys : \A other \in keys \ {k} : StrLess(k, other)
         IN <<least>> \o Sorted(keys \ {least})

\* f"{key}='{env_data[key]}'\n"
FormatLine(key, value) == key \o <<"=", "'">> \o value \o <<"'">>

-----------------------------------------------------------------------------
(* State after construction of a ConfigManager on a fresh directory *)

\* invalidate_cache's file_path = None
AllPaths == "<None>"

NoIndex == [built |-> FALSE, map |-> [n \in Names |-> Absent]]
NoEvent == [ev |-> "none", val |-> NoValue]
Event(e) == [ev |-> e, val |-> NoValue]

\* load_dotenv: the entries of the .env file join os.environ, which keeps its own;
\* of the result, the recognised keys (the only ones get_env_settings looks up)
load_dotenv(file, osenv) ==
    LET loaded == IF file.st = "file"
                  THEN Update(ReadEnv(file.lines, 1, EmptyDict), osenv) ELSE osenv
    IN [k \in DOMAIN loaded \cap DOMAIN default_env_settings |-> loaded[k]]

\* the example file: the recognised keys, each with an empty value
ExampleEnv ==
    LET keys == Sorted(DOMAIN default_env_settings)
    IN EnvFile([i \in 1..Len(keys) |-> keys[i] \o <<"=">>])

\* the directory exists and holds the three default files
InitDir ==
    /\ config_dir = "present"
    /\ example_env = ExampleEnv

\* the two ConfigManagers of a shared directory
Savers == {"self", "peer"}
\* raced: when the manager read the file, the other one had read it too and not
\* yet written
Idle == [pc |-> "idle", settings |-> EmptyDict, env_data |-> EmptyDict,
         status |-> "none", raced |-> FALSE]

\* a second ConfigManager that has done nothing yet
InitPeer ==
    /\ peer_cache = [p \in Paths |-> NoValue]
    /\ saver = [i \in Savers |-> Idle]

\* selected_link before the first right-click: __init__ does not assign it
Unset == <<"<unset>">>
\* selected_link = None
NoLink == <<>>

\* an InstagramLinkMenu on an empty text widget
InitGui ==
    /\ text_widget = <<>>
    /\ selected_link = Unset
    /\ context_menu = "unposted"
    /\ clipboard = NoLink
    /\ opened = {}

Init ==
    /\ files = [p \in Paths |-> File(Dump(Fallback(p)))]
    /\ config_cache = [p \in Paths |-> NoValue]
    /\ device_index = NoIndex
    /\ index_from = NoValue
    /\ env_file = EnvMissing
    /\ environ = load_dotenv(env_file, EmptyDict)
    /\ ret = [op |-> "init", arg |-> AllPaths, status |-> "ok", val |-> NoValue,
              prev |-> "none"]
    /\ hist = [p \in Paths |-> NoEvent]
    /\ InitDir /\ InitPeer /\ InitGui

-----------------------------------------------------------------------------
(* _read_json_file *)

\* variant: the fallback is stored in the cache like a parsed document
read_json_file_caches_fallback(p) ==
    IF config_cache[p] # NoValue
    THEN [status |-> "ok", val |-> config_cache[p], cache |-> config_cache]
    ELSE IF files[p].st = "denied"
    THEN [status |-> "raised", val |-> NoValue, cache |-> config_cache]
    ELSE LET data == IF MissingOrMalformed(files[p]) THEN Fallback(p)
                     ELSE Load(files[p].text)
         IN [status |-> "ok", val |-> data, cache |-> [config_cache EXCEPT ![p] = data]]

\* the outcome of _read_json_file(p): how it ends, what it returns, the cache it leaves
read_json_file(p) ==
    IF config_cache[p] # NoValue
    THEN [status |-> "ok", val |-> config_cache[p], cache |-> config_cache]
    ELSE IF files[p].st = "denied"
    THEN [status |-> "raised", val |-> NoValue, cache |-> config_cache]
    ELSE IF MissingOrMalformed(files[p])
    THEN [status |-> "ok", val |-> Fallback(p), cache |-> config_cache]
    ELSE [status |-> "ok", val |-> Load(files[p].text),
          cache |-> [config_cache EXCEPT ![p] = Load(files[p].text)]]

\* the event a read of p records: none when it was served from the cache or raised
HistAfterRead(p, r) ==
    IF config_cache[p] # NoValue \/ r.status = "raised" THEN hist
    ELSE IF r.cache[p] # NoValue THEN [hist EXCEPT ![p] = Event("loaded")]
    ELSE [hist EXCEPT ![p] = Event("fellback")]

ReadDocument(p) ==
    LET r == read_json_file(p)
    IN /\ config_cache' = r.cache
       /\ ret' = [op |-> "read", arg |-> p, status |-> r.status, val |-> r.val,
                  prev |-> hist[p].ev]
       /\ hist' = HistAfterRead(p, r)
       /\ UNCHANGED <<files, device_index, index_from, env_file, environ, dirVars, peerVars, guiVars>>

-----------------------------------------------------------------------------
(* _write_json_file *)

Min(a, b) == IF a < b THEN a ELSE b

\* the write goes through, or fails after `at` chunks of the text reached the disk
\* (an I/O error, or json.dump raising on a value it cannot serialize)
WriteOutcomes(v) ==
    {[ok |-> TRUE, at |-> 0]}
        \cup {[ok |-> FALSE, at |-> k] : k \in 0..Min(MaxFailAt, Len(Dump(v)) - 1)}

\* variant: a successful write leaves the cache as it was
write_json_file_forgets_cache(p, v, out) ==
    IF files[p].st = "denied"
    THEN [status |-> "fail", file |-> files[p], cache |-> config_cache]
    ELSE IF out.ok
    THEN [status |-> "ok", file |-> File(Dump(v)), cache |-> config_cache]
    ELSE [status |-> "fail", file |-> File(SubSeq(Dump(v), 1, out.at)),
          cache |-> config_cache]

\* variant: the cache is updated before the file is written
write_json_file_caches_first(p, v, out) ==
    IF files[p].st = "denied"
    THEN [status |-> "fail", file |-> files[p], cache |-> [config_cache EXCEPT ![p] = v]]
    ELSE IF out.ok
    THEN [status |-> "ok", file |-> File(Dump(v)),
          cache |-> [config_cache EXCEPT ![p] = v]]
    ELSE [status |-> "fail", file |-> File(SubSeq(Dump(v), 1, out.at)),
          cache |-> [config_cache EXCEPT ![p] = v]]

\* the outcome of _write_json_file(p, v): status, the file and the cache it leaves
write_json_file(p, v, out) ==
    IF files[p].st = "denied"
    THEN [status |-> "fail", file |-> files[p], cache |-> config_cache]
    ELSE IF out.ok
    THEN [status |-> "ok", file |-> File(Dump(v)),
          cache |-> [config_cache EXCEPT ![p] = v]]
    ELSE [status |-> "fail", file |-> File(SubSeq(Dump(v), 1, out.at)),
          cache |-> config_cache]

WriteDocument(p, v, out) ==
    LET w == write_json_file(p, v, out)
    IN /\ files' = [files EXCEPT ![p] = w.file]
       /\ config_cache' = w.cache
       /\ ret' = [op |-> "write", arg |-> p, status |-> w.status,
                  val |-> IF w.status = "ok" THEN v ELSE NoValue, prev |-> "none"]
       /\ hist' = IF w.status = "ok"
                  THEN [hist EXCEPT ![p] = [ev |-> "written", val |-> v]]
                  ELSE hist
       /\ UNCHANGED <<device_index, index_from, env_file, environ, dirVars, peerVars, guiVars>>

-----------------------------------------------------------------------------
(* get_mobile_devices, get_device_by_name *)

RECURSIVE BuildIndex_first_wins(_, _, _)
\* variant: an earlier record is kept when a later one has the same name
BuildIndex_first_wins(devices, i, map) ==
    IF i > Len(devices) THEN map
    ELSE BuildIndex_first_wins(devices, i + 1,
             IF map[devices[i].name] = Absent
             THEN [map EXCEPT ![devices[i].name] = devices[i]] ELSE map)

RECURSIVE BuildIndex(_, _, _)
\* {d['name']: d for d in devices}: a later record replaces an earlier one
BuildIndex(devices, i, map) ==
    IF i > Len(devices) THEN map
    ELSE BuildIndex(devices, i + 1, [map EXCEPT ![devices[i].name] = devices[i]])

\* variant: the index is rebuilt on every call
get_device_index_rebuilds(devices) ==
    [built |-> TRUE, map |-> BuildIndex(devices.items, 1, NoIndex.map)]

\* the index get_device_by_name answers from, given the devices it just read
get_device_index(devices) ==
    IF device_index.built THEN device_index
    ELSE [built |-> TRUE, map |-> BuildIndex(devices.items, 1, NoIndex.map)]

GetDeviceByName(name) ==
    LET r == read_json_file(mobile_devices_path)
    IN /\ hist' = HistAfterRead(mobile_devices_path, r)
       /\ config_cache' = r.cache
       /\ IF r.status = "raised"
          THEN /\ ret' = [op |-> "get_device", arg |-> name, status |-> "raised",
                          val |-> Absent, prev |-> "none"]
               /\ UNCHANGED <<device_index, index_from>>
          ELSE /\ device_index' = get_device_index(r.val)
               /\ index_from' = IF device_index.built THEN index_from ELSE r.val
               /\ ret' = [op |-> "get_device", arg |-> name, status |-> "ok",
                          val |-> device_index'.map[name],
                          prev |-> "none"]
       /\ UNCHANGED <<files, env_file, environ, dirVars, peerVars, guiVars>>

-----------------------------------------------------------------------------
(* invalidate_cache *)

\* variant: without a path, only the index is dropped
invalidate_cache_keeps_entries(target) ==
    IF target # AllPaths
    THEN [cache |-> [config_cache EXCEPT ![target] = NoValue], index |-> device_index]
    ELSE [cache |-> config_cache, index |-> NoIndex]

\* variant: invalidating one path also drops the index
invalidate_cache_drops_index(target) ==
    IF target # AllPaths
    THEN [cache |-> [config_cache EXCEPT ![target] = NoValue], index |-> NoIndex]
    ELSE [cache |-> [p \in Paths |-> NoValue], index |-> NoIndex]

\* the cache and the index invalidate_cache(target) leaves
invalidate_cache(target) ==
    IF target # AllPaths
    THEN [cache |-> [config_cache EXCEPT ![target] = NoValue], index |-> device_index]
    ELSE [cache |-> [p \in Paths |-> NoValue], index |-> NoIndex]

InvalidateCache(target) ==
    LET i == invalidate_cache(target)
    IN /\ config_cache' = i.cache
       /\ device_index' = i.index
       /\ index_from' = IF i.index.built THEN index_from ELSE NoValue
       /\ ret' = [op |-> "invalidate", arg |-> target, status |-> "ok", val |-> NoValue,
                  prev |-> "none"]
       /\ hist' = [p \in Paths |->
                     IF target = AllPaths \/ (target = p /\ hist[p].ev = "flushed")
                     THEN Event("flushed")
                     ELSE IF target = p THEN Event("dropped") ELSE hist[p]]
       /\ UNCHANGED <<files, env_file, environ, dirVars, peerVars, guiVars>>

-----------------------------------------------------------------------------
(* The environment: another process or the user changes a document *)

Truncations(docs) ==
    { File(SubSeq(Dump(v), 1, k)) : v \in docs, k \in 0..MaxFailAt }

\* what the file may become: removed, unreadable, a document, a cut-off document
ExternalStates(docs) ==
    {Missing, Denied} \cup { File(Dump(v)) : v \in docs } \cup Truncations(docs)

ExternalEdit(p, f) ==
    /\ files[p] # f
    /\ files' = [files EXCEPT ![p] = f]
    /\ ret' = [op |-> "edit", arg |-> p, status |-> "ok", val |-> NoValue,
               prev |-> "none"]
    /\ UNCHANGED <<config_cache, device_index, index_from, env_file, hist, environ, dirVars, peerVars, guiVars>>

-----------------------------------------------------------------------------
(* The document store: reads, writes and invalidations of both documents,   *)
(* with the files also changing under the process.  The cache treats the    *)
(* documents as opaque values, so short device lists are enough here.       *)

ShortLists == { ListValue(s) : s \in SeqsUpTo(Records, 1) }
StoreDocs(p) == IF p = mobile_devices_path THEN ShortLists ELSE EntityMaps

Next ==
    \/ \E p \in Paths : ReadDocument(p)
    \/ \E p \in Paths : \E v \in StoreDocs(p) : \E out \in WriteOutcomes(v) :
           WriteDocument(p, v, out)
    \/ \E name \in Names : GetDeviceByName(name)
    \/ \E target \in Paths \cup {AllPaths} : InvalidateCache(target)
    \/ \E p \in Paths : \E f \in ExternalStates(StoreDocs(p)) : ExternalEdit(p, f)

Spec == Init /\ [][Next]_vars

-----------------------------------------------------------------------------
(* Properties of the document store *)

\* C1: a readDocument(path) made after a successful writeDocument(path, v), with no
\* invalidateCache of that path in between, returns v, whatever happened to the
\* file meanwhile.
C1_RoundTrip ==
    [][(ret'.op = "read" /\ hist[ret'.arg].ev = "written")
          => (ret'.status = "ok" /\ ret'.val = hist[ret'.arg].val)]_vars

\* C1 happens: a read returned the written value although the file no longer holds it
C1_Witness ==
    /\ ret.op = "read" /\ ret.prev = "written"
    /\ ret.val = hist[ret.arg].val
    /\ files[ret.arg] # File(Dump(ret.val))

\* what parsing the file of p yields, the empty fallback for a missing or malformed one
OnDisk(p) == IF Readable(files[p]) THEN Load(files[p].text) ELSE Fallback(p)

\* C2: the first readDocument(path) after invalidateCache() returns what the file
\* holds at that moment (the fallback if it is missing or malformed); it can end
\* otherwise only by the file being unreadable.
C2_ReadAfterInvalidate ==
    [][(ret'.op = "read" /\ hist[ret'.arg].ev = "flushed")
          => IF files[ret'.arg].st = "denied" THEN ret'.status = "raised"
             ELSE ret'.status = "ok" /\ ret'.val = OnDisk(ret'.arg)]_vars

\* C2 happens: the read after invalidateCache() returned a document parsed from disk
C2_Witness ==
    /\ ret.op = "read" /\ ret.prev = "flushed" /\ ret.status = "ok"
    /\ ret.val # Fallback(ret.arg)
    /\ ret.val = Load(files[ret.arg].text)

\* C7: readDocument of a missing or malformed file that has no cache entry returns
\* normally: an empty sequence for the device list, an empty mapping for the entities.
C7_EmptyFallback ==
    [][(/\ ret'.op = "read"
        /\ config_cache[ret'.arg] = NoValue
        /\ MissingOrMalformed(files[ret'.arg]))
          => /\ ret'.status = "ok"
             /\ ret'.val = IF ret'.arg = mobile_devices_path
                           THEN ListValue(<<>>) ELSE DictValue(<<>>)]_vars

\* C7 happens: the device list was read from a malformed file
C7_Witness ==
    /\ ret.op = "read" /\ ret.arg = mobile_devices_path
    /\ ret.val = ListValue(<<>>)
    /\ files[mobile_devices_path].st = "file"
    /\ ~Decodes(files[mobile_devices_path].text)
    /\ config_cache[mobile_devices_path] = NoValue

\* C8: a readDocument that falls back leaves the cache as it was, and the next
\* readDocument of the path, made once the file is valid and with no invalidateCache
\* in between, returns the file's content.
C8_FallbackNotCached ==
    [][/\ (/\ ret'.op = "read"
           /\ config_cache[ret'.arg] = NoValue
           /\ MissingOrMalformed(files[ret'.arg]))
             => config_cache' = config_cache
       /\ (/\ ret'.op = "read"
           /\ hist[ret'.arg].ev = "fellback"
           /\ Readable(files[ret'.arg]))
             => (ret'.status = "ok" /\ ret'.val = Load(files[ret'.arg].text))]_vars

\* C8 happens: after a fallback, the next read returned the repaired file's content
C8_Witness ==
    /\ ret.op = "read" /\ ret.prev = "fellback" /\ ret.status = "ok"
    /\ ret.val # Fallback(ret.arg)
    /\ config_cache[ret.arg] = ret.val

\* C9: writeDocument(path, value) returns success with Cache[path] = value, or
\* returns failure with the whole cache as before; it never raises.
C9_WriteOutcome ==
    [][ret'.op = "write"
          => \/ ret'.status = "ok" /\ config_cache'[ret'.arg] = ret'.val
             \/ ret'.status = "fail" /\ config_cache' = config_cache]_vars

\* C9 happens: a write failed, the file is cut off and the cache entry is the old one
C9_Witness ==
    /\ ret.op = "write" /\ ret.status = "fail"
    /\ config_cache[ret.arg] # NoValue
    /\ files[ret.arg].st = "file" /\ ~Decodes(files[ret.arg].text)

\* C13: invalidateCache(path) removes the cache entry of that path and leaves every
\* other entry and the device index as they were; invalidateCache() leaves the cache
\* empty and the index unbuilt; neither changes a file.
C13_InvalidateFrame ==
    [][ret'.op = "invalidate"
          => /\ files' = files /\ env_file' = env_file /\ example_env' = example_env
             /\ IF ret'.arg = AllPaths
                THEN /\ \A p \in Paths : config_cache'[p] = NoValue
                     /\ ~device_index'.built
                ELSE /\ config_cache'[ret'.arg] = NoValue
                     /\ \A p \in Paths \ {ret'.arg} : config_cache'[p] = config_cache[p]
                     /\ device_index' = device_index]_vars

\* C13 happens: the device entry was invalidated while the entities entry and a
\* built index stayed
C13_Witness ==
    /\ ret.op = "invalidate" /\ ret.arg = mobile_devices_path
    /\ hist[mobile_devices_path].ev = "dropped"
    /\ config_cache[mobile_devices_path] = NoValue
    /\ config_cache[telegram_entities_path] # NoValue
    /\ device_index.built

\* C16: a cache entry comes into existence only by a successful parse in readDocument
\* (called directly or by getDeviceByName) or by a successful writeDocument of that
\* path; once present it stays until an invalidateCache that targets it; a built
\* index is dropped only by invalidateCache() without a path.
C16_CacheLifecycle ==
    [][/\ \A p \in Paths :
            /\ (config_cache[p] = NoValue /\ config_cache'[p] # NoValue)
                  => \/ /\ ret'.op = "read" /\ ret'.arg = p
                        /\ Readable(files[p]) /\ config_cache'[p] = Load(files[p].text)
                     \/ /\ ret'.op = "get_device" /\ p = mobile_devices_path
                        /\ Readable(files[p]) /\ config_cache'[p] = Load(files[p].text)
                     \/ /\ ret'.op = "write" /\ ret'.arg = p /\ ret'.status = "ok"
                        /\ config_cache'[p] = ret'.val
            /\ (config_cache[p] # NoValue /\ config_cache'[p] = NoValue)
                  => (ret'.op = "invalidate" /\ ret'.arg \in {p, AllPaths})
       /\ (device_index.built /\ ~device_index'.built)
             => (ret'.op = "invalidate" /\ ret'.arg = AllPaths)]_vars

\* C16 happens: an entry and a built index are still there after the file was removed
C16_Witness ==
    /\ ret.op = "edit" /\ ret.arg = mobile_devices_path
    /\ files[mobile_devices_path] = Missing
    /\ config_cache[mobile_devices_path] # NoValue
    /\ device_index.built

-----------------------------------------------------------------------------
(* The device index: one process working on the device document, whose     *)
(* file may also be removed or made unreadable.                             *)

GetMobileDevices == ReadDocument(mobile_devices_path)

NextIndex ==
    \/ GetMobileDevices
    \/ \E v \in DeviceLists : \E out \in WriteOutcomes(v) :
           WriteDocument(mobile_devices_path, v, out)
    \/ \E name \in Names : GetDeviceByName(name)
    \/ \E target \in {mobile_devices_path, AllPaths} : InvalidateCache(target)
    \/ \E f \in {Missing, Denied} : ExternalEdit(mobile_devices_path, f)

SpecIndex == Init /\ [][NextIndex]_vars

-----------------------------------------------------------------------------
(* Properties of the device index *)

Last(S) == CHOOSE i \in S : \A j \in S : j <= i
\* for each name, the last record of the list that bears it
LastByName(devices) ==
    [n \in Names |->
        LET at == {i \in 1..Len(devices) : devices[i].name = n}
        IN IF at = {} THEN Absent ELSE devices[Last(at)]]

\* what get_mobile_devices() returns in this state
CurrentDevices == read_json_file(mobile_devices_path).val

\* C3 as stated: getDeviceByName(name) returns a record of the current device list
\* named name, and nothing exactly when the current list has none.
C3_AnswersFromCurrentList ==
    (ret.op = "get_device" /\ ret.status = "ok")
        => LET devices == CurrentDevices.items
               at == {i \in 1..Len(devices) : devices[i].name = ret.arg}
           IN IF at = {} THEN ret.val = Absent
              ELSE \E i \in at : ret.val = devices[i]

\* C3 amended: getDeviceByName(name) returns the last record named name of the device
\* list DeviceIndex was built from, and nothing when that list has none.
C3_AnswersFromBuildList ==
    (ret.op = "get_device" /\ ret.status = "ok")
        => /\ index_from # NoValue
           /\ ret.val = LastByName(index_from.items)[ret.arg]

\* C3 happens: a lookup on a freshly built index found one of two records of a name
C3_Witness ==
    /\ ret.op = "get_device" /\ ret.status = "ok"
    /\ index_from = CurrentDevices
    /\ Len(index_from.items) = 2
    /\ index_from.items[1].name = ret.arg
    /\ ret.val = index_from.items[2]
    /\ ret.val # index_from.items[1]

\* C4: once built, DeviceIndex and the list it was built from stay as they are
\* through every call but invalidateCache() without a path, which drops the index;
\* a getDeviceByName answers from the index, and builds it from the device list
\* read by that call only when there is none.
C4_IndexKeptUntilInvalidate ==
    [][/\ device_index.built
          => \/ device_index' = device_index /\ index_from' = index_from
             \/ /\ ret'.op = "invalidate" /\ ret'.arg = AllPaths
                /\ ~device_index'.built
       /\ (ret'.op = "get_device" /\ ret'.status = "ok")
          => /\ device_index'.built
             /\ ret'.val = device_index'.map[ret'.arg]
             /\ ~device_index.built => index_from' = CurrentDevices]_vars

\* C4 happens: a lookup was answered from an index older than the device list
C4_Witness ==
    /\ ret.op = "get_device" /\ ret.status = "ok"
    /\ index_from # CurrentDevices
    /\ ret.val # LastByName(CurrentDevices.items)[ret.arg]

\* C15: when the device list the index is built from holds several records of one
\* name, getDeviceByName of that name returns the record that comes last in the
\* list; the duplicates raise nothing (the call ends otherwise only when it has to
\* open a device file that cannot be read).
C15_LastDuplicateWins ==
    [][ret'.op = "get_device"
          => LET devices == index_from'.items
                 at == {i \in 1..Len(devices) : devices[i].name = ret'.arg}
             IN Cardinality(at) >= 2
                   => \/ /\ ret'.status = "ok"
                         /\ ret'.val = devices[Last(at)]
                         /\ \A i \in at \ {Last(at)} : ret'.val # devices[i]
                      \/ /\ ret'.status = "raised"
                         /\ files[mobile_devices_path].st = "denied"
                         /\ config_cache[mobile_devices_path] = NoValue]_vars

\* C15 happens: of two records named alike, the lookup returned the second
C15_Witness ==
    /\ ret.op = "get_device" /\ ret.status = "ok"
    /\ device_index.built
    /\ \E i, j \in 1..Len(index_from.items) :
          /\ i < j
          /\ index_from.items[i].name = ret.arg
          /\ index_from.items[j].name = ret.arg
          /\ ret.val = index_from.items[j]

-----------------------------------------------------------------------------
(* save_env_settings *)

\* variant: the existing entries are not carried over
merge_env_drops_existing(env_data, settings) == Update(default_env_settings, settings)

\* env_data.update({**self.default_env_settings, **settings})
merge_env(env_data, settings) ==
    Update(env_data, Update(default_env_settings, settings))

\* the lines written for env_data, in the order of the sorted keys
EnvLines(env_data) ==
    LET keys == Sorted(DOMAIN env_data)
    IN [i \in 1..Len(keys) |-> FormatLine(keys[i], env_data[keys[i]])]

\* the call goes through; or fails before the file is opened for writing (at = -1);
\* or fails after `at` lines reached the disk
EnvOutcomes ==
    {[ok |-> TRUE, at |-> 0]} \cup {[ok |-> FALSE, at |-> k] : k \in -1..MaxFailAt}

\* variant: the existing file is read outside the try block
save_env_settings_reads_outside_try(settings, out) ==
    IF env_file.st = "denied" THEN [status |-> "raised", file |-> env_file, environ |-> environ]
    ELSE IF ~out.ok /\ out.at = -1 THEN [status |-> "fail", file |-> env_file, environ |-> environ]
    ELSE LET existing == IF env_file.st = "file"
                         THEN ReadEnv(env_file.lines, 1, EmptyDict) ELSE EmptyDict
             lines == EnvLines(merge_env(existing, settings))
         IN IF out.ok THEN [status |-> "ok", file |-> EnvFile(lines), environ |-> environ]
            ELSE [status |-> "fail",
                  file |-> EnvFile(SubSeq(lines, 1, Min(out.at, Len(lines) - 1))),
                  environ |-> environ]

\* variant: a successful save also assigns the written values to os.environ
save_env_settings_sets_environ(settings, out) ==
    IF env_file.st = "denied" \/ (~out.ok /\ out.at = -1)
    THEN [status |-> "fail", file |-> env_file, environ |-> environ]
    ELSE LET existing == IF env_file.st = "file"
                         THEN ReadEnv(env_file.lines, 1, EmptyDict) ELSE EmptyDict
             env_data == merge_env(existing, settings)
             lines == EnvLines(env_data)
         IN IF out.ok
            THEN [status |-> "ok", file |-> EnvFile(lines),
                  environ |-> [k \in DOMAIN default_env_settings |-> env_data[k]]]
            ELSE [status |-> "fail",
                  file |-> EnvFile(SubSeq(lines, 1, Min(out.at, Len(lines) - 1))),
                  environ |-> environ]

\* the outcome of save_env_settings(settings): status, the file it leaves and
\* os.environ, which it never assigns
save_env_settings(settings, out) ==
    IF env_file.st = "denied" \/ (~out.ok /\ out.at = -1)
    THEN [status |-> "fail", file |-> env_file, environ |-> environ]
    ELSE LET existing == IF env_file.st = "file"
                         THEN ReadEnv(env_file.lines, 1, EmptyDict) ELSE EmptyDict
             lines == EnvLines(merge_env(existing, settings))
         IN IF out.ok THEN [status |-> "ok", file |-> EnvFile(lines), environ |-> environ]
            ELSE [status |-> "fail",
                  file |-> EnvFile(SubSeq(lines, 1, Min(out.at, Len(lines) - 1))),
                  environ |-> environ]

SaveEnvSettings(settings, out) ==
    LET r == save_env_settings(settings, out)
    IN /\ env_file' = r.file
       /\ ret' = [op |-> "save_env", arg |-> settings, status |-> r.status,
                  val |-> NoValue, prev |-> "none"]
       /\ environ' = r.environ
       /\ UNCHANGED <<files, config_cache, device_index, index_from, hist,
                      dirVars, peerVars, guiVars>>

-----------------------------------------------------------------------------
(* The .env file: saves over whatever file the process found at start *)

EnvValues == { <<"1">>, <<"2">> }
\* the settings a caller passes: any of the keys, each with a value
Settings == UNION { [keys -> EnvValues] : keys \in SUBSET {BAR, FOO, TELEGRAM_API_ID} }

\* lines a .env file may hold: quoted with ' or ", unquoted, indented, a comment
SampleLines ==
    { FOO \o <<"=", "'", "1", "'">>,
      FOO \o <<"=", "2">>,
      <<" ">> \o BAR \o <<"=", "\"", "x", "=", "1", "\"", " ">>,
      TELEGRAM_API_ID \o <<"=", "'", "9", "'">>,
      <<"#", " ", "x">> }

InitEnv ==
    /\ files = [p \in Paths |-> File(Dump(Fallback(p)))]
    /\ config_cache = [p \in Paths |-> NoValue]
    /\ device_index = NoIndex
    /\ index_from = NoValue
    /\ env_file \in {EnvMissing, EnvDenied}
                      \cup { EnvFile(l) : l \in SeqsUpTo(SampleLines, MaxEnvLines) }
    /\ environ = load_dotenv(env_file, EmptyDict)
    /\ ret = [op |-> "init", arg |-> AllPaths, status |-> "ok", val |-> NoValue,
              prev |-> "none"]
    /\ hist = [p \in Paths |-> NoEvent]
    /\ InitDir /\ InitPeer /\ InitGui

NextEnv == \E settings \in Settings : \E out \in EnvOutcomes : SaveEnvSettings(settings, out)

SpecEnv == InitEnv /\ [][NextEnv]_vars

-----------------------------------------------------------------------------
(* Properties of save_env_settings *)

\* the keys and values the KEY=VALUE lines of the file hold (a later line of a key
\* replaces an earlier one), none for a file that is not there
Entries(f) ==
    IF f.st # "file" THEN EmptyDict
    ELSE LET kv == { l \in 1..Len(f.lines) : HasEquals(f.lines[l]) }
             keys == { SplitLine(f.lines[l]).k : l \in kv }
         IN [k \in keys |->
               SplitLine(f.lines[Last({l \in kv : SplitLine(f.lines[l]).k = k})]).v]

HasLine(f, line) == \E i \in 1..Len(f.lines) : f.lines[i] = line

\* C5: a successful saveEnvSettings(newValues) keeps every key of the file that is
\* neither a default key nor in newValues, with its value; holds every key of
\* newValues with its new value; and leaves the lines in strictly ascending key
\* order, so each key on one line.
C5_SaveKeepsKeys ==
    [][(ret'.op = "save_env" /\ ret'.status = "ok")
          => LET before == Entries(env_file)
                 new == ret'.arg
                 after == env_file'
             IN /\ after.st = "file"
                /\ \A k \in DOMAIN before \ (DOMAIN default_env_settings \cup DOMAIN new) :
                       HasLine(after, FormatLine(k, before[k]))
                /\ \A k \in DOMAIN new : HasLine(after, FormatLine(k, new[k]))
                /\ \A i \in 1..Len(after.lines) : HasEquals(after.lines[i])
                /\ \A i, j \in 1..Len(after.lines) :
                       i < j => StrLess(SplitLine(after.lines[i]).k,
                                        SplitLine(after.lines[j]).k)]_vars

\* C5 happens: BAR was saved into a file that held FOO, and both are there
C5_Witness ==
    /\ ret.op = "save_env" /\ ret.status = "ok"
    /\ DOMAIN ret.arg = {BAR}
    /\ HasLine(env_file, FormatLine(FOO, <<"1">>))
    /\ HasLine(env_file, FormatLine(BAR, ret.arg[BAR]))

\* C6 as stated: the value saveEnvSettings writes for a key is the one of newValues,
\* else the one the file held, else the default.
C6_ExistingOverDefaults ==
    [][(ret'.op = "save_env" /\ ret'.status = "ok")
          => LET before == Entries(env_file)
                 new == ret'.arg
             IN \A k \in DOMAIN before \cup DOMAIN default_env_settings \cup DOMAIN new :
                    HasLine(env_file',
                            FormatLine(k, IF k \in DOMAIN new THEN new[k]
                                          ELSE IF k \in DOMAIN before THEN before[k]
                                          ELSE default_env_settings[k]))]_vars

-----------------------------------------------------------------------------
(* I/O errors: the three file operations on files that are removed, made      *)
(* unreadable or emptied under the process, and on writes that fail.          *)

InitIO ==
    /\ files = [p \in Paths |-> File(Dump(Fallback(p)))]
    /\ config_cache = [p \in Paths |-> NoValue]
    /\ device_index = NoIndex
    /\ index_from = NoValue
    /\ env_file \in {EnvMissing, EnvDenied, EnvFile(<< FOO \o <<"=", "2">> >>)}
    /\ environ = load_dotenv(env_file, EmptyDict)
    /\ ret = [op |-> "init", arg |-> AllPaths, status |-> "ok", val |-> NoValue,
              prev |-> "none"]
    /\ hist = [p \in Paths |-> NoEvent]
    /\ InitDir /\ InitPeer /\ InitGui

NextIO ==
    \/ \E p \in Paths : ReadDocument(p)
    \/ \E p \in Paths : \E out \in WriteOutcomes(Fallback(p)) :
           WriteDocument(p, Fallback(p), out)
    \/ InvalidateCache(AllPaths)
    \/ \E p \in Paths : \E f \in {Missing, Denied, File(<<>>)} : ExternalEdit(p, f)
    \/ \E settings \in [{BAR} -> EnvValues] : \E out \in EnvOutcomes :
           SaveEnvSettings(settings, out)

SpecIO == InitIO /\ [][NextIO]_vars

\* C10 as stated: no call of readDocument, writeDocument or saveEnvSettings ends
\* with an exception.
C10_NoExceptionPropagates ==
    ret.op \in {"read", "write", "save_env"} => ret.status # "raised"

\* C10 amended: writeDocument and saveEnvSettings never raise; readDocument raises
\* exactly when it has to open a file that cannot be read (the path has no cache
\* entry and the error is neither a missing file nor malformed JSON), and returns
\* the empty default for a missing or malformed file.
C10_OnlyUnreadableFileRaises ==
    /\ ret.op \in {"write", "save_env"} => ret.status \in {"ok", "fail"}
    /\ ret.op = "read"
          => /\ ret.status \in {"ok", "raised"}
             /\ ret.status = "raised"
                   <=> (config_cache[ret.arg] = NoValue /\ files[ret.arg].st = "denied")
             /\ (config_cache[ret.arg] = NoValue /\ MissingOrMalformed(files[ret.arg]))
                   => ret.val = Fallback(ret.arg)

\* C10 happens: a read met an unreadable file and raised
C10_Witness ==
    /\ ret.op = "read" /\ ret.status = "raised"
    /\ files[ret.arg].st = "denied"

-----------------------------------------------------------------------------
(* Construction: ConfigManager(config_dir) on a directory in any state *)

\* Path.exists(): an unreadable file exists too
Exists(f) == f.st # "missing"

\* _create_example_env, _create_default_devices, _create_empty_telegram_entities:
\* the files they leave
create_example_env == ExampleEnv
create_default_devices == File(Dump(ListValue(<<>>)))
create_empty_telegram_entities == File(Dump(DictValue(<<>>)))

\* variant: the three files are written whether they exist or not
initialize_config_files_overwrites ==
    [example |-> create_example_env,
     files |-> [p \in Paths |-> IF p = mobile_devices_path THEN create_default_devices
                                ELSE create_empty_telegram_entities]]

\* variant: the entities file is not looked at
initialize_config_files_skips_entities ==
    [example |-> IF Exists(example_env) THEN example_env ELSE create_example_env,
     files |-> [p \in Paths |->
                  IF p = mobile_devices_path /\ ~Exists(files[p])
                  THEN create_default_devices ELSE files[p]]]

\* _initialize_config_files: the example file and the documents it leaves
initialize_config_files ==
    [example |-> IF Exists(example_env) THEN example_env ELSE create_example_env,
     files |-> [p \in Paths |->
                  IF Exists(files[p]) THEN files[p]
                  ELSE IF p = mobile_devices_path THEN create_default_devices
                  ELSE create_empty_telegram_entities]]

\* _check_config_dir: mkdir(exist_ok=True, parents=True) raises when the directory
\* cannot be created
check_config_dir == IF config_dir = "blocked" THEN "raised" ELSE "ok"

\* ConfigManager(config_dir): a new object, with an empty cache and no index
Initialize ==
    LET again == IF ret.op = "initialize" /\ ret.status = "ok"
                 THEN "initialize" ELSE "none"
    IN IF check_config_dir = "raised"
       THEN /\ ret' = [op |-> "initialize", arg |-> AllPaths, status |-> "raised",
                       val |-> NoValue, prev |-> again]
            /\ UNCHANGED <<files, config_cache, device_index, index_from, env_file,
                           hist, environ, dirVars, peerVars, guiVars>>
       ELSE LET made == initialize_config_files
            IN /\ config_dir' = "present"
               /\ config_cache' = [p \in Paths |-> NoValue]
               /\ device_index' = NoIndex
               /\ index_from' = NoValue
               /\ hist' = [p \in Paths |-> NoEvent]
               /\ environ' = load_dotenv(env_file, environ)
               /\ example_env' = made.example
               /\ files' = made.files
               /\ ret' = [op |-> "initialize", arg |-> AllPaths, status |-> "ok",
                          val |-> NoValue, prev |-> again]
               /\ UNCHANGED <<env_file, peerVars, guiVars>>

\* the user or another program changes a document of an existing directory
Tamper(p, f) == config_dir = "present" /\ ExternalEdit(p, f)

\* the user removes or rewrites the example file
EditExample(f) ==
    /\ example_env # f
    /\ example_env' = f
    /\ ret' = [op |-> "edit", arg |-> AllPaths, status |-> "ok", val |-> NoValue,
               prev |-> "none"]
    /\ UNCHANGED <<files, config_cache, device_index, index_from, env_file, hist,
                   environ, config_dir, peerVars, guiVars>>

\* an example file the user filled in
FilledExample == EnvFile(<< TELEGRAM_API_ID \o <<"=", "9">> >>)
ExampleStates == {EnvMissing, ExampleEnv, FilledExample}

\* the directory is missing, cannot be created, or exists with documents in any state
InitConstruct ==
    /\ config_dir \in {"absent", "blocked", "present"}
    /\ files \in { f \in [Paths -> UNION { ExternalStates(StoreDocs(p)) : p \in Paths }] :
                       \A p \in Paths : f[p] \in ExternalStates(StoreDocs(p)) }
    /\ config_dir # "present" => \A p \in Paths : files[p] = Missing
    /\ example_env \in ExampleStates
    /\ config_cache = [p \in Paths |-> NoValue]
    /\ device_index = NoIndex
    /\ index_from = NoValue
    /\ env_file = EnvMissing
    /\ environ = EmptyDict
    /\ ret = [op |-> "none", arg |-> AllPaths, status |-> "ok", val |-> NoValue,
              prev |-> "none"]
    /\ hist = [p \in Paths |-> NoEvent]
    /\ InitPeer /\ InitGui

NextConstruct ==
    \/ Initialize
    \/ \E p \in Paths : \E f \in ExternalStates(StoreDocs(p)) : Tamper(p, f)
    \/ \E f \in ExampleStates : EditExample(f)

SpecConstruct == InitConstruct /\ [][NextConstruct]_vars

-----------------------------------------------------------------------------
(* Properties of construction *)

\* C11: initialize never overwrites: each of .env.example, mobile_devices.json and
\* telegram_entities.json that exists when initialize is called has the same content
\* when it returns; and an initialize that follows a completed one changes no file.
C11_NeverOverwrites ==
    [][ret'.op = "initialize"
          => /\ \A p \in Paths : Exists(files[p]) => files'[p] = files[p]
             /\ Exists(example_env) => example_env' = example_env
             /\ (ret.op = "initialize" /\ ret.status = "ok")
                   => (files' = files /\ example_env' = example_env)]_vars

\* C11 happens: a second initialize returned, over a device list that is not the
\* default one and an example file the user filled in
C11_Witness ==
    /\ ret.op = "initialize" /\ ret.status = "ok" /\ ret.prev = "initialize"
    /\ Exists(files[mobile_devices_path])
    /\ files[mobile_devices_path] # create_default_devices
    /\ example_env = FilledExample

\* C12: initialize on a directory (one that exists or can be created) where some of
\* the three files are missing completes normally, and when it returns all three
\* exist: a created device list file holds the empty sequence, a created entities
\* file the empty mapping.
C12_CreatesMissing ==
    [][(/\ ret'.op = "initialize"
        /\ config_dir # "blocked"
        /\ (~Exists(example_env) \/ \E p \in Paths : ~Exists(files[p])))
          => /\ ret'.status = "ok"
             /\ Exists(example_env') /\ \A p \in Paths : Exists(files'[p])
             /\ ~Exists(files[mobile_devices_path])
                   => /\ Readable(files'[mobile_devices_path])
                      /\ Load(files'[mobile_devices_path].text) = ListValue(<<>>)
             /\ ~Exists(files[telegram_entities_path])
                   => /\ Readable(files'[telegram_entities_path])
                      /\ Load(files'[telegram_entities_path].text) = DictValue(<<>>)]_vars

\* C12 happens: initialize made the directory and the three files in it
C12_Witness ==
    /\ ret.op = "initialize" /\ ret.status = "ok" /\ ret.prev = "none"
    /\ config_dir = "present"
    /\ example_env = ExampleEnv
    /\ files[mobile_devices_path] = create_default_devices
    /\ files[telegram_entities_path] = create_empty_telegram_entities
    /\ config_cache = [p \in Paths |-> NoValue]

-----------------------------------------------------------------------------
(* The process environment: get_env_settings between saves *)

\* the mapping get_env_settings() returns: os.getenv(key, default) for each
\* recognised key
get_env_settings ==
    [k \in DOMAIN default_env_settings |->
        IF k \in DOMAIN environ THEN environ[k] ELSE default_env_settings[k]]

GetEnvSettings ==
    /\ ret' = [op |-> "get_env", arg |-> AllPaths, status |-> "ok",
               val |-> [kind |-> "env", items |-> get_env_settings],
               prev |-> IF ret.op = "save_env" /\ ret.status = "ok"
                        THEN "saved" ELSE "none"]
    /\ UNCHANGED <<files, config_cache, device_index, index_from, env_file, hist,
                   environ, dirVars, peerVars, guiVars>>

\* what the operating system hands the process for the recognised keys
OsEnvs == { EmptyDict, [k \in {TELEGRAM_API_ID} |-> <<"2">>] }

\* the process starts with its own environment and the .env file it found loaded
InitEnviron ==
    /\ files = [p \in Paths |-> File(Dump(Fallback(p)))]
    /\ config_cache = [p \in Paths |-> NoValue]
    /\ device_index = NoIndex
    /\ index_from = NoValue
    /\ env_file \in {EnvMissing, EnvDenied}
                      \cup { EnvFile(<<l>>) : l \in SampleLines }
    /\ \E osenv \in OsEnvs : environ = load_dotenv(env_file, osenv)
    /\ ret = [op |-> "init", arg |-> AllPaths, status |-> "ok", val |-> NoValue,
              prev |-> "none"]
    /\ hist = [p \in Paths |-> NoEvent]
    /\ InitDir /\ InitPeer /\ InitGui

NextEnviron ==
    \/ \E settings \in [{TELEGRAM_API_ID} -> EnvValues] \cup {EmptyDict} :
          \E out \in EnvOutcomes : SaveEnvSettings(settings, out)
    \/ GetEnvSettings

SpecEnviron == InitEnviron /\ [][NextEnviron]_vars

\* C14: saveEnvSettings leaves the process environment alone: getEnvSettings() returns
\* the same mapping right after the call as right before it, whether the call
\* returned success or failure.
C14_SaveLeavesEnviron ==
    [][ret'.op = "save_env"
          => /\ ret'.status \in {"ok", "fail"}
             /\ get_env_settings' = get_env_settings]_vars

\* C14 happens: right after a successful save of TELEGRAM_API_ID, getEnvSettings()
\* returned a value other than the one now in the file
C14_Witness ==
    /\ ret.op = "get_env" /\ ret.prev = "saved"
    /\ env_file.st = "file"
    /\ HasLine(env_file, FormatLine(TELEGRAM_API_ID, <<"1">>))
    /\ ret.val.items[TELEGRAM_API_ID] # <<"1">>

-----------------------------------------------------------------------------
(* One process alone: the documents change only through write_json_file *)

\* documents that are JSON values as they stand
PlainDocs(p) == IF p = mobile_devices_path THEN ShortLists
                ELSE { v \in EntityMaps : \A i \in 1..Len(v.items) : ~v.items[i].k.int }

NextAlone ==
    \/ \E p \in Paths : ReadDocument(p)
    \/ \E p \in Paths : \E v \in PlainDocs(p) : \E out \in WriteOutcomes(v) :
           WriteDocument(p, v, out)
    \/ \E name \in Names : GetDeviceByName(name)
    \/ \E target \in Paths \cup {AllPaths} : InvalidateCache(target)

SpecAlone == Init /\ [][NextAlone]_vars

\* C19 as stated: with one process and no outside change, for every path that has a
\* cache entry the file on disk parses to a value equal to the entry, also after a
\* writeDocument that returned failure.
C19_CacheMatchesDisk ==
    \A p \in Paths :
        config_cache[p] # NoValue
            => (Readable(files[p]) /\ Load(files[p].text) = config_cache[p])

-----------------------------------------------------------------------------
(* Two ConfigManagers on the same files.  Each has its own cache; the calls  *)
(* of one run between the file operations of the other, so a                 *)
(* save_env_settings is two steps: reading the file and merging, then        *)
(* writing the merged lines.                                                 *)

\* the second ConfigManager writes a document: _write_json_file on the shared file
\* and its own cache
PeerWriteDocument(p, v, out) ==
    LET w == write_json_file(p, v, out)
    IN /\ files' = [files EXCEPT ![p] = w.file]
       /\ peer_cache' = IF w.status = "ok" THEN [peer_cache EXCEPT ![p] = v]
                        ELSE peer_cache
       /\ ret' = [op |-> "peer_write", arg |-> p, status |-> w.status,
                  val |-> IF w.status = "ok" THEN v ELSE NoValue, prev |-> "none"]
       /\ UNCHANGED <<config_cache, device_index, index_from, env_file, hist, environ,
                      dirVars, saver, guiVars>>

\* save_env_settings up to env_data.update(...): what the caller has in hand
save_env_read(settings) ==
    IF env_file.st = "denied" THEN [status |-> "fail", env_data |-> EmptyDict]
    ELSE LET existing == IF env_file.st = "file"
                         THEN ReadEnv(env_file.lines, 1, EmptyDict) ELSE EmptyDict
         IN [status |-> "ok", env_data |-> merge_env(existing, settings)]

\* variant: the file is read and merged once more at the moment of writing
save_env_write_merges_again(env_data, out) ==
    IF ~out.ok /\ out.at = -1 THEN [status |-> "fail", file |-> env_file]
    ELSE LET existing == IF env_file.st = "file"
                         THEN ReadEnv(env_file.lines, 1, EmptyDict) ELSE EmptyDict
             lines == EnvLines(Update(existing, env_data))
         IN IF out.ok THEN [status |-> "ok", file |-> EnvFile(lines)]
            ELSE [status |-> "fail",
                  file |-> EnvFile(SubSeq(lines, 1, Min(out.at, Len(lines) - 1)))]

\* save_env_settings from open(env_file_path, 'w') on: status and the file it leaves
save_env_write(env_data, out) ==
    IF ~out.ok /\ out.at = -1 THEN [status |-> "fail", file |-> env_file]
    ELSE LET lines == EnvLines(env_data)
         IN IF out.ok THEN [status |-> "ok", file |-> EnvFile(lines)]
            ELSE [status |-> "fail",
                  file |-> EnvFile(SubSeq(lines, 1, Min(out.at, Len(lines) - 1)))]

\* manager i calls save_env_settings(settings) and gets as far as the merge
SaveRead(i, settings) ==
    /\ saver[i].pc # "merged"
    /\ LET r == save_env_read(settings)
       IN /\ saver' = [saver EXCEPT ![i] =
                         [pc |-> IF r.status = "ok" THEN "merged" ELSE "done",
                          settings |-> settings, env_data |-> r.env_data,
                          status |-> IF r.status = "ok" THEN "none" ELSE "fail",
                          raced |-> \E j \in Savers \ {i} : saver[j].pc = "merged"]]
          /\ ret' = [op |-> "save_read", arg |-> i, status |-> r.status,
                     val |-> NoValue, prev |-> "none"]
    /\ UNCHANGED <<files, config_cache, device_index, index_from, env_file, hist,
                   environ, dirVars, peer_cache, guiVars>>

\* manager i writes what it merged and returns
SaveWrite(i, out) ==
    /\ saver[i].pc = "merged"
    /\ LET w == save_env_write(saver[i].env_data, out)
       IN /\ env_file' = w.file
          /\ saver' = [saver EXCEPT ![i].pc = "done", ![i].status = w.status]
          /\ ret' = [op |-> "save_write", arg |-> i, status |-> w.status,
                     val |-> NoValue, prev |-> "none"]
    /\ UNCHANGED <<files, config_cache, device_index, index_from, hist, environ,
                   dirVars, peer_cache, guiVars>>

\* the device lists the two managers write
SharedDocs == { v \in ShortLists : \A i \in 1..Len(v.items) : v.items[i].name = "B" }
\* the settings a manager saves: each its own key
SharedSettings(i) ==
    IF i = "self" THEN [{FOO} -> {<<"1">>}] ELSE [{BAR} -> {<<"2">>}]

NextShared ==
    \/ ReadDocument(mobile_devices_path)
    \/ \E v \in SharedDocs : \E out \in WriteOutcomes(v) :
           WriteDocument(mobile_devices_path, v, out)
    \/ \E v \in SharedDocs : \E out \in WriteOutcomes(v) :
           PeerWriteDocument(mobile_devices_path, v, out)
    \/ \E i \in Savers : \E settings \in SharedSettings(i) : SaveRead(i, settings)
    \/ \E i \in Savers : \E out \in EnvOutcomes : SaveWrite(i, out)

SpecShared == Init /\ [][NextShared]_vars

\* C17: with two managers on the same files nothing reports the conflict: a read
\* served from a manager's cache returns its entry normally whatever the other
\* manager has written to the file since (a stale read), and a save that completes
\* leaves exactly the lines merged from what its manager read earlier, whatever
\* the other manager has saved since (the last writer wins, the other update is lost).
C17_StaleAndLostSilently ==
    [][/\ (ret'.op = "read" /\ config_cache[ret'.arg] # NoValue)
             => /\ ret'.status = "ok"
                /\ ret'.val = config_cache[ret'.arg]
                /\ files' = files
       /\ (ret'.op = "save_write" /\ ret'.status = "ok")
             => env_file' = EnvFile(EnvLines(saver[ret'.arg].env_data))]_vars

\* C17 happens: both managers' saves returned success and the file lacks the key
\* the first of them saved; and a read just returned a device list other than the
\* one the other manager wrote and the file holds
C17_Witness ==
    /\ \A i \in Savers : saver[i].pc = "done" /\ saver[i].status = "ok"
    /\ saver["peer"].raced
    /\ env_file.st = "file"
    /\ FOO \notin DOMAIN Entries(env_file)
    /\ BAR \in DOMAIN Entries(env_file)
    /\ ret.op = "read" /\ ret.status = "ok"
    /\ peer_cache[ret.arg] # NoValue
    /\ files[ret.arg] = File(Dump(peer_cache[ret.arg]))
    /\ ret.val # peer_cache[ret.arg]

-----------------------------------------------------------------------------
(* InstagramLinkMenu (src/gui_helpers.py): the context menu of a text widget  *)
(* whose links carry the tag instagram_link.  The widget is a line of         *)
(* characters, each with its set of tags; a tagged range is a maximal run of  *)
(* tagged characters.                                                         *)

instagram_link == "instagram_link"
\* the tag of the selection, which the widget puts on selected characters
sel == "sel"
\* the tags a character may carry
TagSets == { {}, {instagram_link}, {instagram_link, sel} }

\* the characters of the widget, by position
Alphabet == <<"a", "b", "c", "d", "e", "f">>

\* text_widget.tag_names(index); past the last character there is the final newline
tag_names(index) ==
    IF index \in 1..Len(text_widget) THEN text_widget[index] ELSE {}

Tagged(index) == instagram_link \in tag_names(index)

\* where the ranges of instagram_link start
RangeStarts == { i \in 1..Len(text_widget) : Tagged(i) /\ (i = 1 \/ ~Tagged(i - 1)) }

\* the index just past the range that starts at start
RangeEnd(start) ==
    CHOOSE e \in (start + 1)..(Len(text_widget) + 1) :
        /\ ~Tagged(e)
        /\ \A i \in start..(e - 1) : Tagged(i)

\* text_widget.tag_prevrange("instagram_link", index): the nearest range whose first
\* character is before index; the empty tuple when there is none
tag_prevrange(index) ==
    LET before == { st \in RangeStarts : st < index }
    IN IF before = {} THEN <<>>
       ELSE LET start == CHOOSE st \in before : \A other \in before : other <= st
            IN <<start, RangeEnd(start)>>

\* text_widget.get(start, end)
get(start, end) == [i \in 1..(end - start) |-> Alphabet[start + i - 1]]

\* _show_context_menu for a click on the character at index: the outcome, the
\* selected link and the menu it leaves
show_context_menu(index) ==
    IF tag_names(index) = {instagram_link}
    THEN LET range == tag_prevrange(index)
         IN IF range = <<>>
            THEN [status |-> "raised", selected_link |-> NoLink, menu |-> context_menu]
            ELSE [status |-> "posted", selected_link |-> get(range[1], range[2]),
                  menu |-> "posted"]
    ELSE [status |-> "ok", selected_link |-> NoLink, menu |-> context_menu]

ShowContextMenu(index) ==
    LET r == show_context_menu(index)
    IN /\ selected_link' = r.selected_link
       /\ context_menu' = r.menu
       /\ ret' = [op |-> "right_click", arg |-> index, status |-> r.status,
                  val |-> NoValue, prev |-> "none"]
       /\ UNCHANGED <<files, config_cache, device_index, index_from, env_file, hist,
                      environ, dirVars, peerVars, text_widget, clipboard, opened>>

\* _open_selected_link
OpenSelectedLink ==
    /\ opened' = IF selected_link \notin {Unset, NoLink}
                 THEN opened \cup {selected_link} ELSE opened
    /\ ret' = [op |-> "open", arg |-> AllPaths,
               status |-> IF selected_link = Unset THEN "raised" ELSE "ok",
               val |-> NoValue, prev |-> "none"]
    /\ UNCHANGED <<files, config_cache, device_index, index_from, env_file, hist,
                   environ, dirVars, peerVars, text_widget, selected_link,
                   context_menu, clipboard>>

\* _copy_selected_link
CopySelectedLink ==
    /\ clipboard' = IF selected_link \notin {Unset, NoLink}
                    THEN selected_link ELSE clipboard
    /\ ret' = [op |-> "copy", arg |-> AllPaths,
               status |-> IF selected_link = Unset THEN "raised" ELSE "ok",
               val |-> NoValue, prev |-> "none"]
    /\ UNCHANGED <<files, config_cache, device_index, index_from, env_file, hist,
                   environ, dirVars, peerVars, text_widget, selected_link,
                   context_menu, opened>>

\* _clear_menu
ClearMenu ==
    /\ context_menu' = "unposted"
    /\ ret' = [op |-> "clear_menu", arg |-> AllPaths, status |-> "ok",
               val |-> NoValue, prev |-> "none"]
    /\ UNCHANGED <<files, config_cache, device_index, index_from, env_file, hist,
                   environ, dirVars, peerVars, text_widget, selected_link,
                   clipboard, opened>>

\* a menu on a widget that holds any text with any links highlighted
InitMenu ==
    /\ files = [p \in Paths |-> File(Dump(Fallback(p)))]
    /\ config_cache = [p \in Paths |-> NoValue]
    /\ device_index = NoIndex
    /\ index_from = NoValue
    /\ env_file = EnvMissing
    /\ environ = EmptyDict
    /\ ret = [op |-> "init", arg |-> AllPaths, status |-> "ok", val |-> NoValue,
              prev |-> "none"]
    /\ hist = [p \in Paths |-> NoEvent]
    /\ InitDir /\ InitPeer
    /\ text_widget \in SeqsUpTo(TagSets, MaxChars)
    /\ selected_link = Unset
    /\ context_menu = "unposted"
    /\ clipboard = NoLink
    /\ opened = {}

NextMenu ==
    \/ \E index \in 1..(MaxChars + 1) : ShowContextMenu(index)
    \/ OpenSelectedLink
    \/ CopySelectedLink
    \/ ClearMenu

SpecMenu == InitMenu /\ [][NextMenu]_vars

\* the text of the tagged range the character at index lies in
LinkAt(index) ==
    LET start == CHOOSE st \in RangeStarts : st <= index /\ index < RangeEnd(st)
    IN get(start, RangeEnd(start))

\* C18 as stated: a right-click posts the menu only on a character that carries
\* instagram_link, and then the selected link is the text of the tagged range under
\* the cursor; every other right-click leaves the selected link none; with the
\* selected link none, open and copy do nothing.
C18_MenuOnlyOnLink ==
    [][/\ ret'.op = "right_click"
             => IF ret'.status = "posted"
                THEN /\ Tagged(ret'.arg)
                     /\ context_menu' = "posted"
                     /\ selected_link' = LinkAt(ret'.arg)
                ELSE /\ selected_link' = NoLink
                     /\ context_menu' = context_menu
       /\ (ret'.op \in {"open", "copy"} /\ selected_link = NoLink)
             => (ret'.status = "ok" /\ opened' = opened /\ clipboard' = clipboard)]_vars

====
